---- MODULE Spec2Model ----
(***************************************************************************)
(* Model of the PondoBro front end (src/frontend/src/main.rs): the view    *)
(* controllers' fetch lifecycle, the create forms and their single-flight  *)
(* gate, and the bearer-token forwarding.                                  *)
(*                                                                         *)
(* Strings are sequences of one-character strings, so that trim() and      *)
(* parse::<i64>() are computed character by character.  Option<T> is a     *)
(* sequence of length at most one: None is <<>>, Some(x) is <<x>>.         *)
(*                                                                         *)
(* A yew UseStateHandle dereferences to the value of the render in which   *)
(* the handle was obtained.  A callback therefore reads the values of the  *)
(* latest render (the current ones, renders run before the next event),    *)
(* while an async task keeps reading the values captured when it was       *)
(* spawned.                                                                *)
(***************************************************************************)
EXTENDS Integers, Sequences, FiniteSets, TLC

VARIABLES
    access_token,    \* localStorage["access_token"], Option<String>
    page,            \* App::active_page, the mounted view
    transactions,    \* the view's list cell (transactions / incomes / expenses / recent)
    loading,         \* the view's loading cell
    total_income,    \* Dashboard / Summary cell
    total_expenses,  \* Dashboard / Summary cell
    balance,         \* Dashboard / Summary cell
    form,            \* form_date, form_description, form_category, form_amount
    form_error,      \* Option<String> message
    form_success,    \* Option<String> message (Dashboard)
    saving,          \* the single-flight gate of the mounted form
    show_add,        \* Dashboard: the form is rendered
    fetchPc,         \* position of the activation's fetch task
    fetchReq,        \* the request that task is awaiting
    fetchLog,        \* history: the responses this activation's fetch task has received
    createPc,        \* position of the form's create task
    createReq,       \* the request that task is awaiting
    createSnap,      \* the list value captured by the create task's handle
    category_totals, \* Budget: the (category, total) pairs of the fetched expenses
    total_spent,     \* Budget: the sum of the fetched expenses
    storage,         \* localStorage["settings" | "budgets" | "saving_goal"], Option<raw string>
    settings,        \* App: the settings cell handed to the views as context
    budgets,         \* Budget / Dashboard: the budget collection cell
    budget_error,    \* Budget: Option<String> message
    goal,            \* Savings: the goal cell (Dashboard: current_goal)
    is_creating,     \* Savings: the goal form is rendered
    contribTask,     \* the companion task add_contribution has spawned, not yet polled
    contribReq       \* the companion POSTs that are awaiting their responses

vars == <<access_token, page, transactions, loading, total_income, total_expenses,
          balance, form, form_error, form_success, saving, show_add, fetchPc,
          fetchReq, fetchLog, createPc, createReq, createSnap, category_totals,
          total_spent, storage, settings,
          budgets, budget_error, goal, is_creating, contribTask, contribReq>>

\* the cells of the ledger-side views
ledgerVars == <<transactions, loading, total_income, total_expenses, balance, form,
                form_error, form_success, saving, show_add, fetchPc, fetchReq,
                fetchLog, createPc, createReq, createSnap, category_totals,
                total_spent>>

\* the local store, the cells of the local-entity views and their companion task
localVars == <<storage, settings, budgets, budget_error, goal, is_creating,
               contribTask, contribReq>>

----------------------------------------------------------------------------
(* Bounds of the model *)

MaxRemoteLen == 1     \* longest transaction list the remote returns
MaxListLen == 2       \* longest in-memory list before another create is tried
MaxBudgets == 3       \* longest budget collection before another entry is appended
MaxContribs == 2      \* longest contributions list before another one is added
MaxOutstanding == 1   \* most companion POSTs awaiting their responses at once
MaxFetched == 3       \* longest list the remote returns to the Income and Expense views

----------------------------------------------------------------------------
(* Strings *)

EMPTY == <<>>
FOOD == <<"F", "o", "o", "d">>
SALARY == <<"S", "a", "l", "a", "r", "y">>
TRANSPORTATION == <<"T", "r", "a", "n", "s", "p", "o", "r", "t", "a", "t", "i", "o", "n">>
D1 == <<"2", "0", "2", "4", "-", "0", "1", "-", "0", "2">>
DESC == <<"x">>

None == <<>>
Some(x) == <<x>>

IsWhitespace(c) == c \in {" ", "\t", "\n"}

RECURSIVE TrimStart(_)
TrimStart(s) ==
    IF s # <<>> /\ IsWhitespace(Head(s)) THEN TrimStart(Tail(s)) ELSE s

RECURSIVE TrimEnd(_)
TrimEnd(s) ==
    IF s # <<>> /\ IsWhitespace(s[Len(s)])
    THEN TrimEnd(SubSeq(s, 1, Len(s) - 1))
    ELSE s

Trim(s) == TrimEnd(TrimStart(s))

Digits == {"0", "1", "2", "3", "4", "5", "6", "7", "8", "9"}

DigitVal(c) ==
    CASE c = "0" -> 0 [] c = "1" -> 1 [] c = "2" -> 2 [] c = "3" -> 3
      [] c = "4" -> 4 [] c = "5" -> 5 [] c = "6" -> 6 [] c = "7" -> 7
      [] c = "8" -> 8 [] c = "9" -> 9

RECURSIVE DigitsVal(_)
DigitsVal(s) ==
    IF s = <<>> THEN 0
    ELSE 10 * DigitsVal(SubSeq(s, 1, Len(s) - 1)) + DigitVal(s[Len(s)])

AllDigits(s) == s # <<>> /\ \A i \in 1..Len(s) : s[i] \in Digits

\* str::parse::<i64>(): an optional sign, then one or more digits, nothing else
\* (Err otherwise).  The inputs of the model are far shorter than the 19 digits
\* at which the i64 range ends, so the overflow error is not reached.
ParseI64(s) ==
    IF s = <<>> THEN None
    ELSE IF Head(s) = "-"
         THEN IF AllDigits(Tail(s)) THEN Some(0 - DigitsVal(Tail(s))) ELSE None
    ELSE IF Head(s) = "+"
         THEN IF AllDigits(Tail(s)) THEN Some(DigitsVal(Tail(s))) ELSE None
    ELSE IF AllDigits(s) THEN Some(DigitsVal(s)) ELSE None

UnwrapOr(opt, d) == IF opt = None THEN d ELSE opt[1]

----------------------------------------------------------------------------
(* Data model and the remote collaborator's possible answers *)

MkTransaction(id, date, description, category, amount) ==
    [id |-> id, date |-> date, description |-> description,
     category |-> category, amount |-> amount]

T_FOOD == MkTransaction(Some(1), D1, DESC, FOOD, 0 - 5)
T_SALARY == MkTransaction(Some(2), D1, DESC, SALARY, 7)

TxPool == {T_FOOD, T_SALARY}

RECURSIVE SeqsUpTo(_, _)
SeqsUpTo(S, n) ==
    IF n = 0 THEN {<<>>}
    ELSE LET shorter == SeqsUpTo(S, n - 1)
         IN  shorter \cup {Append(s, x) : s \in {t \in shorter : Len(t) = n - 1}, x \in S}

RemoteLists == SeqsUpTo(TxPool, MaxRemoteLen)

CreatedIds == {Some(3), Some(4)}

Tokens == {"tokA"}
TokenOpts == {None} \cup {Some(t) : t \in Tokens}

MkSummary(i, e, b) == [total_income |-> i, total_expenses |-> e, balance |-> b]

\* a field that is absent or is no integer reads as None (Value::as_i64)
SummaryBodies ==
    { MkSummary(Some(7), Some(5), Some(2)),
      MkSummary(None, Some(9), Some(3)) }

Failures == {"NetErr", "Status", "BadBody"}

MkResponse(outcome, body) == [outcome |-> outcome, body |-> body]

FailedResponses == {MkResponse(o, None) : o \in Failures}
ListResponses == FailedResponses \cup {MkResponse("Ok", Some(l)) : l \in RemoteLists}
SummaryResponses == FailedResponses \cup {MkResponse("Ok", Some(b)) : b \in SummaryBodies}
CreateResponses == FailedResponses \cup {MkResponse("Ok", Some(i)) : i \in CreatedIds}

----------------------------------------------------------------------------
(* Requests *)

TX_URL == "/api/transactions"
SUMMARY_URL == "/api/dashboard/summary"

BearerHeader(token) == [name |-> "Authorization", scheme |-> "Bearer", token |-> token]

\* the header block of every request builder that reads local storage
AttachToken(token_opt) ==
    IF token_opt # None THEN Some(BearerHeader(token_opt[1])) ELSE None

MkRequest(method, url, auth, payload, token_opt) ==
    [method |-> method, url |-> url, auth |-> auth, payload |-> payload,
     token_at_build |-> token_opt]

GetRequest(url, token_opt) ==
    MkRequest("GET", url, AttachToken(token_opt), None, token_opt)

PostRequest(payload, token_opt) ==
    MkRequest("POST", TX_URL, AttachToken(token_opt), Some(payload), token_opt)

\* the summary refetch of dashboard_page::on_submit builds its request without
\* reading local storage
RefetchRequest(token_opt) ==
    MkRequest("GET", SUMMARY_URL, None, None, token_opt)

----------------------------------------------------------------------------
(* Locally-owned entities and the local store *)

CAR == <<"C", "a", "r">>
NEW_GOAL == <<"N", "e", "w", " ", "G", "o", "a", "l">>
CONTRIBUTION == <<"C", "o", "n", "t", "r", "i", "b", "u", "t", "i", "o", "n">>
SAVINGS == <<"S", "a", "v", "i", "n", "g", "s">>
RENT == <<"R", "e", "n", "t">>
PHP == <<"P", "H", "P">>
USD == <<"U", "S", "D">>
EUR == <<"E", "U", "R">>
GBP == <<"G", "B", "P">>
JPY == <<"J", "P", "Y">>

\* the currency symbols, one character each, written by their names
SYM_PESO == <<"peso sign">>
SYM_DOLLAR == <<"dollar sign">>
SYM_EURO == <<"euro sign">>
SYM_POUND == <<"pound sign">>
SYM_YEN == <<"yen sign">>

MkSettings(code, symbol) == [currency_code |-> code, currency_symbol |-> symbol]

default_settings == MkSettings(PHP, SYM_PESO)

currency_symbol_for(code) ==
    CASE code = USD -> SYM_DOLLAR
      [] code = EUR -> SYM_EURO
      [] code = GBP -> SYM_POUND
      [] code = JPY -> SYM_YEN
      [] OTHER -> SYM_PESO

MkBudgetItem(category, limit) == [category |-> category, limit |-> limit]

MkContribution(date, description, amount) ==
    [date |-> date, description |-> description, amount |-> amount]

MkGoal(title, target_amount, target_date, contributions) ==
    [title |-> title, target_amount |-> target_amount, target_date |-> target_date,
     contributions |-> contributions]

\* the goal load_saving_goal falls back to
DefaultGoal == MkGoal(NEW_GOAL, 0, EMPTY, <<>>)

\* the goal remove_goal builds
ClearedGoal == MkGoal(EMPTY, 0, EMPTY, <<>>)

\* the budget collection load_budgets falls back to
DefaultBudgets == <<>>

\* A stored string is a JSON text, held as the value it denotes, or a text that
\* is no JSON.  A JSON value is a tag and what the tag carries.
JNull == [t |-> "null", v |-> <<>>]
JStr(s) == [t |-> "str", v |-> s]
JNum(n) == [t |-> "num", v |-> n]
JArr(items) == [t |-> "arr", v |-> items]
JObj(fields) == [t |-> "obj", v |-> fields]

JsonText(value) == [kind |-> "json", value |-> value]
NotJson == [kind |-> "text", value |-> JNull]

\* (mutant) the symbol is written under another field name
SettingsJson_Renamed(s) ==
    JObj([currency_code |-> JStr(s.currency_code), symbol |-> JStr(s.currency_symbol)])

\* serde_json::to_string of the derived Serialize implementations
SettingsJson(s) ==
    JObj([currency_code |-> JStr(s.currency_code),
          currency_symbol |-> JStr(s.currency_symbol)])

BudgetItemJson(b) == JObj([category |-> JStr(b.category), limit |-> JNum(b.limit)])

BudgetsJson(items) == JArr([i \in 1..Len(items) |-> BudgetItemJson(items[i])])

ContributionJson(c) ==
    JObj([date |-> JStr(c.date), description |-> JStr(c.description),
          amount |-> JNum(c.amount)])

GoalJson(g) ==
    JObj([title |-> JStr(g.title), target_amount |-> JNum(g.target_amount),
          target_date |-> JStr(g.target_date),
          contributions |->
              JArr([i \in 1..Len(g.contributions) |-> ContributionJson(g.contributions[i])])])

\* serde_json::from_str of the derived Deserialize implementations: the text is
\* JSON, the value is an object that has every field of the struct, and every
\* field has the type of the struct's field (fields the struct does not have
\* are skipped)
IsObjWith(j, names) == j.t = "obj" /\ names \subseteq DOMAIN j.v
IsStr(j) == j.t = "str"
IsI64(j) == j.t = "num"
IsArrOf(j, IsItem(_)) == j.t = "arr" /\ \A i \in 1..Len(j.v) : IsItem(j.v[i])

IsSettingsJson(j) ==
    /\ IsObjWith(j, {"currency_code", "currency_symbol"})
    /\ IsStr(j.v.currency_code)
    /\ IsStr(j.v.currency_symbol)

IsBudgetItemJson(j) ==
    /\ IsObjWith(j, {"category", "limit"})
    /\ IsStr(j.v.category)
    /\ IsI64(j.v.limit)

IsContributionJson(j) ==
    /\ IsObjWith(j, {"date", "description", "amount"})
    /\ IsStr(j.v.date)
    /\ IsStr(j.v.description)
    /\ IsI64(j.v.amount)

IsGoalJson(j) ==
    /\ IsObjWith(j, {"title", "target_amount", "target_date", "contributions"})
    /\ IsStr(j.v.title)
    /\ IsI64(j.v.target_amount)
    /\ IsStr(j.v.target_date)
    /\ IsArrOf(j.v.contributions, IsContributionJson)

SettingsOfJson(j) == MkSettings(j.v.currency_code.v, j.v.currency_symbol.v)

BudgetItemOfJson(j) == MkBudgetItem(j.v.category.v, j.v.limit.v)

ContributionOfJson(j) == MkContribution(j.v.date.v, j.v.description.v, j.v.amount.v)

GoalOfJson(j) ==
    MkGoal(j.v.title.v, j.v.target_amount.v, j.v.target_date.v,
           [i \in 1..Len(j.v.contributions.v) |-> ContributionOfJson(j.v.contributions.v[i])])

\* Result<T, _> as Option<T>
FromStrSettings(raw) ==
    IF raw.kind = "json" /\ IsSettingsJson(raw.value)
    THEN Some(SettingsOfJson(raw.value)) ELSE None

FromStrBudgets(raw) ==
    IF raw.kind = "json" /\ IsArrOf(raw.value, IsBudgetItemJson)
    THEN Some([i \in 1..Len(raw.value.v) |-> BudgetItemOfJson(raw.value.v[i])])
    ELSE None

FromStrGoal(raw) ==
    IF raw.kind = "json" /\ IsGoalJson(raw.value)
    THEN Some(GoalOfJson(raw.value)) ELSE None

Keys == {"settings", "budgets", "saving_goal"}

\* storage.get_item(key) is Some(raw) and from_str(&raw) is Ok(value): the
\* value; else the default
load_settings(st) ==
    IF st["settings"] # None /\ FromStrSettings(st["settings"][1]) # None
    THEN FromStrSettings(st["settings"][1])[1]
    ELSE default_settings

load_budgets(st) ==
    IF st["budgets"] # None /\ FromStrBudgets(st["budgets"][1]) # None
    THEN FromStrBudgets(st["budgets"][1])[1]
    ELSE DefaultBudgets

load_saving_goal(st) ==
    IF st["saving_goal"] # None /\ FromStrGoal(st["saving_goal"][1]) # None
    THEN FromStrGoal(st["saving_goal"][1])[1]
    ELSE DefaultGoal

\* storage.set_item(key, &to_string(value)): the store after the write.  The
\* store is taken to be available and within its quota, so that set_item
\* succeeds; to_string cannot fail for these structs.
save_settings(st, s) == [st EXCEPT !["settings"] = Some(JsonText(SettingsJson(s)))]

save_budgets(st, items) == [st EXCEPT !["budgets"] = Some(JsonText(BudgetsJson(items)))]

save_saving_goal(st, g) == [st EXCEPT !["saving_goal"] = Some(JsonText(GoalJson(g)))]

\* What the store holds before the program has written a key: nothing, or a
\* string another version of the program left there, which is no JSON or is
\* JSON of another shape.
OtherShape == JsonText(JObj([title |-> JStr(CAR)]))

UnwrittenRaws == {None, Some(NotJson), Some(OtherShape)}

UnwrittenStores == {[k \in Keys |-> r] : r \in UnwrittenRaws}

EmptyStore == [k \in Keys |-> None]

\* the cells of the local-entity views as their use_state initialisers leave
\* them over the store st, no companion task running
LocalMounted(st) ==
    /\ storage = st
    /\ settings = load_settings(st)
    /\ budgets = load_budgets(st)
    /\ budget_error = None
    /\ goal = load_saving_goal(st)
    /\ is_creating = FALSE
    /\ contribTask = None
    /\ contribReq = <<>>

----------------------------------------------------------------------------
(* Views *)

Pages == {"Dashboard", "Income", "Expense", "Summary"}
FormPages == {"Dashboard", "Income", "Expense"}
SummaryPages == {"Dashboard", "Summary"}

DefaultCategory(p) ==
    CASE p = "Income" -> SALARY
      [] p = "Expense" -> TRANSPORTATION
      [] OTHER -> EMPTY

EmptyForm(p) ==
    [date |-> EMPTY, description |-> EMPTY, category |-> DefaultCategory(p), amount |-> EMPTY]

FirstFetch(p) == IF p = "Summary" THEN "summary" ELSE "list"

FetchUrl(pc) == IF pc = "summary" THEN SUMMARY_URL ELSE TX_URL

RECENT_LIMIT == 10

Take(s, n) == IF Len(s) <= n THEN s ELSE SubSeq(s, 1, n)

\* (mutant) a transaction of amount 0 counts as income
IsIncome_NonNegative(t) == t.amount >= 0

IsIncome(t) == t.amount > 0
IsExpense(t) == t.amount < 0

\* what each view stores of a fetched list
ListView(p, list) ==
    CASE p = "Income" -> SelectSeq(list, IsIncome)
      [] p = "Expense" -> SelectSeq(list, IsExpense)
      [] p = "Summary" -> Take(list, RECENT_LIMIT)
      [] OTHER -> list

\* the state of a view right after it is mounted: use_state initial values, and
\* the effect's task has built its first request
Mount(p, token_opt) ==
    /\ page' = p
    /\ transactions' = <<>>
    /\ loading' = TRUE
    /\ total_income' = 0
    /\ total_expenses' = 0
    /\ balance' = 0
    /\ form' = EmptyForm(p)
    /\ form_error' = None
    /\ form_success' = None
    /\ saving' = FALSE
    /\ show_add' = FALSE
    /\ fetchPc' = FirstFetch(p)
    /\ fetchReq' = Some(GetRequest(FetchUrl(FirstFetch(p)), token_opt))
    /\ fetchLog' = <<>>
    /\ createPc' = "idle"
    /\ createReq' = None
    /\ createSnap' = <<>>
    /\ category_totals' = <<>>
    /\ total_spent' = 0

\* the same state, as a predicate of the current state
Mounted(p, token_opt) ==
    /\ page = p
    /\ transactions = <<>>
    /\ loading = TRUE
    /\ total_income = 0
    /\ total_expenses = 0
    /\ balance = 0
    /\ form = EmptyForm(p)
    /\ form_error = None
    /\ form_success = None
    /\ saving = FALSE
    /\ show_add = FALSE
    /\ fetchPc = FirstFetch(p)
    /\ fetchReq = Some(GetRequest(FetchUrl(FirstFetch(p)), token_opt))
    /\ fetchLog = <<>>
    /\ createPc = "idle"
    /\ createReq = None
    /\ createSnap = <<>>
    /\ category_totals = <<>>
    /\ total_spent = 0

\* App starts on the Dashboard; the auth collaborator has stored a token or not
Init ==
    /\ access_token \in TokenOpts
    /\ Mounted("Dashboard", access_token)
    /\ LocalMounted(EmptyStore)

\* App::on_select: another view is mounted, the previous one is dropped with its tasks
Navigate(p) ==
    /\ p # page
    /\ Mount(p, access_token)
    /\ UNCHANGED access_token
    /\ UNCHANGED localVars

\* logout removes the token and reloads; the auth collaborator may store a token
\* before the views are rendered again
Reload(token_opt) ==
    /\ access_token' = token_opt
    /\ Mount("Dashboard", token_opt)
    /\ UNCHANGED localVars

----------------------------------------------------------------------------
(* The activation's fetch task *)

\* (mutant) the task ends after its first read
NextFetch_OneRead(p, pc) == "done"

\* the order in which one task issues the view's reads
NextFetch(p, pc) ==
    CASE p = "Dashboard" /\ pc = "list" -> "summary"
      [] p = "Summary" /\ pc = "summary" -> "list"
      [] OTHER -> "done"

\* (mutant) loading.set(false) placed after the first read instead of the last
FetchAdvance_LoadingEarly(pc) ==
    LET next == NextFetch(page, pc) IN
    /\ fetchPc' = next
    /\ fetchReq' = IF next = "done" THEN None
                   ELSE Some(GetRequest(FetchUrl(next), access_token))
    /\ loading' = FALSE

\* the task goes on to its next request, or ends with loading.set(false)
FetchAdvance(pc) ==
    LET next == NextFetch(page, pc) IN
    /\ fetchPc' = next
    /\ fetchReq' = IF next = "done" THEN None
                   ELSE Some(GetRequest(FetchUrl(next), access_token))
    /\ loading' = IF next = "done" THEN FALSE ELSE loading

FetchLogEntry(url, resp) == [url |-> url, outcome |-> resp.outcome]

\* if let Some(v) = json.get(..).and_then(|x| x.as_i64()) { cell.set(v) }
SetIfSome(cell, field) == IF field # None THEN field[1] ELSE cell

\* (mutant) the balance cell is not refreshed
ApplySummary_NoBalance(resp) ==
    IF resp.outcome = "Ok"
    THEN /\ total_income' = SetIfSome(total_income, resp.body[1].total_income)
         /\ total_expenses' = SetIfSome(total_expenses, resp.body[1].total_expenses)
         /\ UNCHANGED balance
    ELSE UNCHANGED <<total_income, total_expenses, balance>>

ApplySummary(resp) ==
    IF resp.outcome = "Ok"
    THEN /\ total_income' = SetIfSome(total_income, resp.body[1].total_income)
         /\ total_expenses' = SetIfSome(total_expenses, resp.body[1].total_expenses)
         /\ balance' = SetIfSome(balance, resp.body[1].balance)
    ELSE UNCHANGED <<total_income, total_expenses, balance>>

\* (mutant) a failed read resets the list
ListAfter_ResetOnFailure(p, current, resp) ==
    IF resp.outcome = "Ok" THEN ListView(p, resp.body[1]) ELSE <<>>

\* if let Ok(resp) .. if resp.ok() .. if let Ok(list) .. { list_cell.set(..) }
ListAfter(p, current, resp) ==
    IF resp.outcome = "Ok" THEN ListView(p, resp.body[1]) ELSE current

\* the response to GET /api/transactions of the activation
ListResponse(resp) ==
    /\ UNCHANGED <<category_totals, total_spent>>
    /\ fetchPc = "list"
    /\ transactions' = ListAfter(page, transactions, resp)
    /\ fetchLog' = Append(fetchLog, FetchLogEntry(TX_URL, resp))
    /\ FetchAdvance("list")
    /\ UNCHANGED <<access_token, page, total_income, total_expenses, balance, form,
                   form_error, form_success, saving, show_add, createPc, createReq,
                   createSnap>>
    /\ UNCHANGED localVars

\* the response to GET /api/dashboard/summary of the activation
SummaryResponse(resp) ==
    /\ UNCHANGED <<category_totals, total_spent>>
    /\ fetchPc = "summary"
    /\ ApplySummary(resp)
    /\ fetchLog' = Append(fetchLog, FetchLogEntry(SUMMARY_URL, resp))
    /\ FetchAdvance("summary")
    /\ UNCHANGED <<access_token, page, transactions, form, form_error, form_success,
                   saving, show_add, createPc, createReq, createSnap>>
    /\ UNCHANGED localVars

----------------------------------------------------------------------------
(* The create forms *)

MSG_INCOMPLETE == "Please complete all fields."
MSG_NONZERO == "Amount must be a non-zero number."
MSG_POSITIVE == "Amount must be a positive number."
MSG_NOT_SAVED == "Could not save the transaction."
MSG_NOT_READ == "Could not read the saved transaction."
MSG_SAVED == "Transaction saved."

MkForm(date, description, category, amount) ==
    [date |-> date, description |-> description, category |-> category, amount |-> amount]

Fields == {"date", "description", "category", "amount"}

\* what the user has typed into the four fields when the button is clicked
\* (the oninput callbacks store the typed text in the form cells)
FormInputs(p) ==
    LET cat == IF p = "Dashboard" THEN FOOD ELSE DefaultCategory(p) IN
    { MkForm(D1, DESC, cat, <<"5", " ">>),
      MkForm(D1, <<" ", "x">>, FOOD, <<"-", "5">>),
      MkForm(EMPTY, DESC, cat, <<"5">>),
      MkForm(D1, <<" ">>, cat, <<"5">>),
      MkForm(D1, DESC, <<" ">>, <<"5">>),
      MkForm(D1, DESC, cat, EMPTY),
      MkForm(D1, DESC, cat, <<"0">>),
      MkForm(D1, DESC, cat, <<"a">>) }

\* the form is rendered (Dashboard: only while show_add)
FormShown == page \in FormPages /\ (page = "Dashboard" => show_add)

\* dashboard_page::on_toggle_add
ToggleAdd ==
    /\ UNCHANGED <<category_totals, total_spent>>
    /\ page = "Dashboard"
    /\ show_add' = ~show_add
    /\ form_error' = None
    /\ form_success' = None
    /\ UNCHANGED <<access_token, page, transactions, loading, total_income,
                   total_expenses, balance, form, saving, fetchPc, fetchReq, fetchLog,
                   createPc, createReq, createSnap>>
    /\ UNCHANGED localVars

\* income_page::on_clear, expense_page::on_clear
Clear ==
    /\ UNCHANGED <<category_totals, total_spent>>
    /\ page \in {"Income", "Expense"}
    /\ form' = [form EXCEPT !.date = EMPTY, !.amount = EMPTY, !.description = EMPTY]
    /\ form' # form
    /\ UNCHANGED <<access_token, page, transactions, loading, total_income,
                   total_expenses, balance, form_error, form_success, saving, show_add,
                   fetchPc, fetchReq, fetchLog, createPc, createReq, createSnap>>
    /\ UNCHANGED localVars

Trimmed(f) == [k \in Fields |-> Trim(f[k])]

\* (mutant) the fields are tested without trim()
AnyFieldEmpty_NoTrim(f) == \E k \in Fields : f[k] = EMPTY

AnyFieldEmpty(f) == \E k \in Fields : Trimmed(f)[k] = EMPTY

ParsedAmount(f) == UnwrapOr(ParseI64(Trimmed(f).amount), 0)

\* (mutant) only a negative amount is refused, and none on the Dashboard
AmountRefused_NegativeOnly(p, amount) ==
    IF p = "Dashboard" THEN FALSE ELSE amount < 0

\* Dashboard: amount == 0 is refused; Income, Expense: parsed <= 0 is refused
AmountRefused(p, amount) ==
    IF p = "Dashboard" THEN amount = 0 ELSE amount <= 0

AmountMessage(p) == IF p = "Dashboard" THEN MSG_NONZERO ELSE MSG_POSITIVE

\* the message the validation sets, None when the form passes
ValidationError(p, f) ==
    IF AnyFieldEmpty(f) THEN Some(MSG_INCOMPLETE)
    ELSE IF AmountRefused(p, ParsedAmount(f)) THEN Some(AmountMessage(p))
    ELSE None

\* the amount the form sends: Expense negates the entered amount
SentAmount(p, amount) == IF p = "Expense" THEN 0 - amount ELSE amount

Payload(p, f) ==
    [date |-> Trimmed(f).date, description |-> Trimmed(f).description,
     category |-> Trimmed(f).category, amount |-> SentAmount(p, ParsedAmount(f))]

\* (mutant) the button is rendered without disabled={*saving}
ButtonEnabled_NoGate == FormShown

\* the button is rendered with disabled={*saving}
ButtonEnabled == FormShown /\ ~saving

\* a click on Save / Add Income / Add Expense with f typed into the fields,
\* f failing validation
SubmitInvalid(f) ==
    /\ UNCHANGED <<category_totals, total_spent>>
    /\ ButtonEnabled
    /\ ValidationError(page, f) # None
    /\ form' = f
    /\ form_error' = ValidationError(page, f)
    /\ UNCHANGED <<access_token, page, transactions, loading, total_income,
                   total_expenses, balance, form_success, saving, show_add,
                   fetchPc, fetchReq, fetchLog, createPc, createReq, createSnap>>
    /\ UNCHANGED localVars

\* a click with f typed into the fields, f passing validation: the gate is set
\* and the create task is spawned with the handles of this render
SubmitValid(f) ==
    /\ UNCHANGED <<category_totals, total_spent>>
    /\ ButtonEnabled
    /\ ValidationError(page, f) = None
    /\ Len(transactions) < MaxListLen
    /\ form' = f
    /\ form_error' = None
    /\ form_success' = IF page = "Dashboard" THEN None ELSE form_success
    /\ saving' = TRUE
    /\ createPc' = "post"
    /\ createReq' = Some(PostRequest(Payload(page, f), access_token))
    /\ createSnap' = transactions
    /\ UNCHANGED <<access_token, page, transactions, loading, total_income,
                   total_expenses, balance, show_add, fetchPc, fetchReq, fetchLog>>
    /\ UNCHANGED localVars

Submit(f) == SubmitInvalid(f) \/ SubmitValid(f)

\* the entity the remote answers a create with
Created(id, payload) ==
    MkTransaction(id, payload.date, payload.description, payload.category, payload.amount)

\* let mut next = (*list).clone(); next.insert(0, created); list.set(next)
Prepend(captured, created) == <<created>> \o captured

\* the message a failed POST sets on the form: the Dashboard sets one on a
\* non-success status and on an undecodable body, and returns silently on a
\* network error; Income and Expense set none
PostFailureMessage(p, outcome, current) ==
    IF p = "Dashboard" /\ outcome = "Status" THEN Some(MSG_NOT_SAVED)
    ELSE IF p = "Dashboard" /\ outcome = "BadBody" THEN Some(MSG_NOT_READ)
    ELSE current

\* the gate after a failed POST: the Dashboard task returns on a network error
\* before it reaches saving.set(false)
GateAfterFailure(p, outcome, current) ==
    IF p = "Dashboard" /\ outcome = "NetErr" THEN current ELSE FALSE

\* the response to the form's POST /api/transactions (builder.json(&payload)
\* cannot fail for a payload of three strings and an integer, so the task
\* always reaches send())
\* the create task from the response to its POST on, created being the entity
\* decoded from a successful response
CreateApply(resp, created) ==
    /\ UNCHANGED <<category_totals, total_spent>>
    /\ createPc = "post"
    /\ createSnap' = <<>>
    /\ IF resp.outcome = "Ok"
       THEN /\ transactions' = Prepend(createSnap, created)
            /\ form' = EmptyForm(page)
            /\ IF page = "Dashboard"
               THEN /\ createPc' = "refetch"
                    /\ createReq' = Some(RefetchRequest(access_token))
                    /\ UNCHANGED saving
               ELSE /\ createPc' = "idle"
                    /\ createReq' = None
                    /\ saving' = FALSE
            /\ UNCHANGED form_error
       ELSE /\ form_error' = PostFailureMessage(page, resp.outcome, form_error)
            /\ saving' = GateAfterFailure(page, resp.outcome, saving)
            /\ createPc' = "idle"
            /\ createReq' = None
            /\ UNCHANGED <<transactions, form>>
    /\ UNCHANGED <<access_token, page, loading, total_income, total_expenses, balance,
                   form_success, show_add, fetchPc, fetchReq, fetchLog>>
    /\ UNCHANGED localVars

\* the response of a remote that stores the payload as it is and gives it an id
CreateResponse(resp) ==
    CreateApply(resp, Created(resp.body[1], createReq[1].payload[1]))

\* the response to the summary refetch of dashboard_page::on_submit
RefetchResponse(resp) ==
    /\ UNCHANGED <<category_totals, total_spent>>
    /\ createPc = "refetch"
    /\ ApplySummary(resp)
    /\ show_add' = FALSE
    /\ form_success' = Some(MSG_SAVED)
    /\ saving' = FALSE
    /\ createPc' = "idle"
    /\ createReq' = None
    /\ UNCHANGED <<access_token, page, transactions, loading, form, form_error,
                   fetchPc, fetchReq, fetchLog, createSnap>>
    /\ UNCHANGED localVars

----------------------------------------------------------------------------
(* The local-entity views: Budget, Savings, Settings, and the goal card of  *)
(* the Dashboard.                                                          *)

\* The text typed into a form is the input of the click that reads it; the
\* cells that hold it until then (budget_category, budget_limit, the contrib
\* cells, the new_goal cells) are written by the oninput callbacks and emptied
\* by the click, and are not state of the model.

LocalPages == {"Dashboard", "Budget", "Savings", "Settings"}

MSG_BUDGET == "Enter a category and a positive limit."

Uppercase ==
    <<"A", "B", "C", "D", "E", "F", "G", "H", "I", "J", "K", "L", "M",
      "N", "O", "P", "Q", "R", "S", "T", "U", "V", "W", "X", "Y", "Z">>

Lowercase ==
    <<"a", "b", "c", "d", "e", "f", "g", "h", "i", "j", "k", "l", "m",
      "n", "o", "p", "q", "r", "s", "t", "u", "v", "w", "x", "y", "z">>

UpperToLower ==
    [c \in {Uppercase[i] : i \in 1..Len(Uppercase)} |->
        Lowercase[CHOOSE i \in 1..Len(Uppercase) : Uppercase[i] = c]]

\* u8::to_ascii_lowercase: 'A'..='Z' map to 'a'..='z', every other character to itself
to_ascii_lowercase(c) == IF c \in DOMAIN UpperToLower THEN UpperToLower[c] ELSE c

\* (mutant) the categories are compared as they are written
eq_ignore_ascii_case_Exact(a, b) == a = b

\* str::eq_ignore_ascii_case: the same length and, character by character, the
\* same ASCII lowercase
eq_ignore_ascii_case(a, b) ==
    /\ Len(a) = Len(b)
    /\ \A i \in 1..Len(a) : to_ascii_lowercase(a[i]) = to_ascii_lowercase(b[i])

\* next.iter_mut().find(|b| b.category.eq_ignore_ascii_case(&category)): the
\* position of the first match, 0 when there is none
FindBudget(items, category) ==
    LET hits == {i \in 1..Len(items) : eq_ignore_ascii_case(items[i].category, category)}
    IN  IF hits = {} THEN 0 ELSE CHOOSE i \in hits : \A j \in hits : i <= j

\* (mutant) the matched entry is dropped and the new one pushed at the end
Upsert_MoveToEnd(items, category, limit) ==
    LET i == FindBudget(items, category)
        item == MkBudgetItem(category, limit)
    IN  IF i # 0
        THEN Append(SubSeq(items, 1, i - 1) \o SubSeq(items, i + 1, Len(items)), item)
        ELSE Append(items, item)

\* if let Some(existing) = .. { existing.limit = limit } else { next.push(..) }
Upsert(items, category, limit) ==
    LET i == FindBudget(items, category)
    IN  IF i # 0
        THEN [items EXCEPT ![i].limit = limit]
        ELSE Append(items, MkBudgetItem(category, limit))

MkBudgetInput(category, limit) == [category |-> category, limit |-> limit]

BudgetCategory(inp) == Trim(inp.category)

BudgetLimit(inp) == UnwrapOr(ParseI64(Trim(inp.limit)), 0)

BudgetRefused(inp) == BudgetCategory(inp) = EMPTY \/ BudgetLimit(inp) <= 0

\* what the user has typed into the two fields when Add Budget is clicked
BudgetInputs ==
    { MkBudgetInput(FOOD, <<"5">>),
      MkBudgetInput(<<" ", "f", "O", "O", "D">>, <<"9", " ">>),
      MkBudgetInput(RENT, <<"5">>),
      MkBudgetInput(<<" ">>, <<"5">>),
      MkBudgetInput(FOOD, <<"0">>),
      MkBudgetInput(RENT, <<"x">>) }

\* budget_page::on_add_budget
OnAddBudget(inp) ==
    /\ page = "Budget"
    /\ contribTask = None
    /\ IF BudgetRefused(inp)
       THEN /\ budget_error' = Some(MSG_BUDGET)
            /\ UNCHANGED <<budgets, storage>>
       ELSE /\ FindBudget(budgets, BudgetCategory(inp)) # 0 \/ Len(budgets) < MaxBudgets
            /\ budgets' = Upsert(budgets, BudgetCategory(inp), BudgetLimit(inp))
            /\ storage' = save_budgets(storage, budgets')
            /\ budget_error' = None
    /\ UNCHANGED <<access_token, page, ledgerVars, settings, goal, is_creating,
                   contribTask, contribReq>>

\* settings_page::on_currency_change
CurrencyCodes == {PHP, USD}

OnCurrencyChange(code) ==
    /\ page = "Settings"
    /\ contribTask = None
    /\ settings' = MkSettings(code, currency_symbol_for(code))
    /\ storage' = save_settings(storage, settings')
    /\ UNCHANGED <<access_token, page, ledgerVars, budgets, budget_error, goal,
                   is_creating, contribTask, contribReq>>

\* savings_page::toggle_create
ToggleCreate ==
    /\ page = "Savings"
    /\ contribTask = None
    /\ is_creating' = ~is_creating
    /\ UNCHANGED <<access_token, page, ledgerVars, storage, settings, budgets,
                   budget_error, goal, contribTask, contribReq>>

MkGoalInput(title, amount, date) == [title |-> title, amount |-> amount, date |-> date]

\* what the goal form holds when Save Goal is clicked
GoalInputs ==
    { MkGoalInput(CAR, <<"6">>, D1),
      MkGoalInput(CAR, <<"-", "5">>, EMPTY),
      MkGoalInput(EMPTY, <<"5">>, D1),
      MkGoalInput(CAR, EMPTY, D1) }

GoalRefused(inp) == inp.title = EMPTY \/ inp.amount = EMPTY

\* (mutant) the new goal keeps the contributions of the previous one
NewGoal_KeepContributions(inp, previous) ==
    MkGoal(inp.title, UnwrapOr(ParseI64(inp.amount), 0), inp.date, previous.contributions)

\* the SavingGoalState create_goal builds
NewGoal(inp, previous) ==
    MkGoal(inp.title, UnwrapOr(ParseI64(inp.amount), 0), inp.date, <<>>)

\* savings_page::create_goal (its button is part of the goal form)
CreateGoal(inp) ==
    /\ page = "Savings"
    /\ contribTask = None
    /\ is_creating
    /\ IF GoalRefused(inp)
       THEN UNCHANGED <<goal, storage, is_creating>>
       ELSE /\ goal' = NewGoal(inp, goal)
            /\ storage' = save_saving_goal(storage, goal')
            /\ is_creating' = FALSE
    /\ UNCHANGED <<access_token, page, ledgerVars, settings, budgets, budget_error,
                   contribTask, contribReq>>

\* savings_page::remove_goal
RemoveGoal ==
    /\ page = "Savings"
    /\ contribTask = None
    /\ goal' = ClearedGoal
    /\ storage' = save_saving_goal(storage, goal')
    /\ is_creating' = FALSE
    /\ UNCHANGED <<access_token, page, ledgerVars, settings, budgets, budget_error,
                   contribTask, contribReq>>

MkContribInput(date, amount, description) ==
    [date |-> date, amount |-> amount, description |-> description]

\* what the contribution form holds when Add is clicked
ContribInputs ==
    { MkContribInput(D1, <<"4">>, EMPTY),
      MkContribInput(D1, <<"4">>, DESC),
      MkContribInput(D1, <<"0">>, DESC),
      MkContribInput(D1, <<"-", "4">>, DESC),
      MkContribInput(D1, <<"4", " ">>, DESC),
      MkContribInput(D1, EMPTY, DESC) }

\* (mutant) the amount is trimmed before it is parsed
ContribParsed_Trimmed(inp) == UnwrapOr(ParseI64(Trim(inp.amount)), 0)

\* contrib_amount.parse::<i64>().unwrap_or(0)
ContribParsed(inp) == UnwrapOr(ParseI64(inp.amount), 0)

ContribEntry(inp) ==
    MkContribution(inp.date,
                   IF inp.description = EMPTY THEN CONTRIBUTION ELSE inp.description,
                   ContribParsed(inp))

\* (mutant) the companion transaction carries the amount as entered
ContribPayload_Positive(inp) ==
    [date |-> inp.date,
     description |-> IF inp.description = EMPTY THEN SAVINGS ELSE inp.description,
     category |-> SAVINGS,
     amount |-> ContribParsed(inp)]

\* the payload of the companion transaction
ContribPayload(inp) ==
    [date |-> inp.date,
     description |-> IF inp.description = EMPTY THEN SAVINGS ELSE inp.description,
     category |-> SAVINGS,
     amount |-> 0 - ContribParsed(inp)]

\* next_goal.contributions.insert(0, entry)
WithContribution(g, entry) == [g EXCEPT !.contributions = <<entry>> \o @]

\* savings_page::add_contribution up to spawn_local: the local write, and the
\* companion task is queued
AddContribution(inp) ==
    /\ page = "Savings"
    /\ contribTask = None
    /\ IF ContribParsed(inp) <= 0
       THEN UNCHANGED <<goal, storage, contribTask>>
       ELSE /\ Len(goal.contributions) < MaxContribs
            /\ Len(contribReq) < MaxOutstanding
            /\ goal' = WithContribution(goal, ContribEntry(inp))
            /\ storage' = save_saving_goal(storage, goal')
            /\ contribTask' = Some(ContribPayload(inp))
    /\ UNCHANGED <<access_token, page, ledgerVars, settings, budgets, budget_error,
                   is_creating, contribReq>>

\* The queued task runs as soon as the click handler has returned, before any
\* other event is handled (every other action waits for contribTask = None): it
\* builds the POST, reading the token from the store, and sends it.
ContribSend ==
    /\ contribTask # None
    /\ contribReq' = Append(contribReq, PostRequest(contribTask[1], access_token))
    /\ contribTask' = None
    /\ UNCHANGED <<access_token, page, ledgerVars, storage, settings, budgets,
                   budget_error, goal, is_creating>>

\* the remote's answers to a companion POST; the task reads no body
CompanionResponses == {MkResponse(o, None) : o \in {"Ok", "Status", "NetErr"}}

RemoveAt(s, i) == SubSeq(s, 1, i - 1) \o SubSeq(s, i + 1, Len(s))

\* (mutant) a failed companion POST takes the latest contribution back
GoalAfterCompanion_Rollback(g, resp) ==
    IF resp.outcome # "Ok" /\ g.contributions # <<>>
    THEN [g EXCEPT !.contributions = Tail(@)]
    ELSE g

\* let _ = builder.send().await;
GoalAfterCompanion(g, resp) == g

\* the response to the i-th outstanding companion POST
ContribResponse(i, resp) ==
    /\ contribTask = None
    /\ i \in 1..Len(contribReq)
    /\ contribReq' = RemoveAt(contribReq, i)
    /\ goal' = GoalAfterCompanion(goal, resp)
    /\ UNCHANGED <<access_token, page, ledgerVars, storage, settings, budgets,
                   budget_error, is_creating, contribTask>>

\* App::on_select among the local-entity views: the view is mounted with the
\* use_state initial values of its cells; a companion task goes on
LocalNavigate(p) ==
    /\ p # page
    /\ contribTask = None
    /\ page' = p
    /\ budgets' = load_budgets(storage)
    /\ budget_error' = None
    /\ goal' = load_saving_goal(storage)
    /\ is_creating' = FALSE
    /\ UNCHANGED <<access_token, ledgerVars, storage, settings, contribTask, contribReq>>

\* the document is loaded again: App reads the settings, the Dashboard is
\* mounted, the tasks of the previous document are gone
LocalReload ==
    /\ contribTask = None
    /\ page' = "Dashboard"
    /\ settings' = load_settings(storage)
    /\ budgets' = load_budgets(storage)
    /\ budget_error' = None
    /\ goal' = load_saving_goal(storage)
    /\ is_creating' = FALSE
    /\ contribReq' = <<>>
    /\ UNCHANGED <<access_token, ledgerVars, storage, contribTask>>

\* the ledger-side cells of a view whose reads brought nothing
LedgerIdle ==
    /\ transactions = <<>>
    /\ loading = FALSE
    /\ total_income = 0
    /\ total_expenses = 0
    /\ balance = 0
    /\ form = EmptyForm("Dashboard")
    /\ form_error = None
    /\ form_success = None
    /\ saving = FALSE
    /\ show_add = FALSE
    /\ fetchPc = "done"
    /\ fetchReq = None
    /\ fetchLog = <<>>
    /\ createPc = "idle"
    /\ createReq = None
    /\ createSnap = <<>>
    /\ category_totals = <<>>
    /\ total_spent = 0

\* The local entities: App starts on the Dashboard over a store the program
\* has not written yet; the ledger reads of the views are left to Spec.
LocalInit ==
    /\ access_token \in TokenOpts
    /\ page = "Dashboard"
    /\ LedgerIdle
    /\ \E st \in UnwrittenStores : LocalMounted(st)

LocalNext ==
    \/ \E p \in LocalPages : LocalNavigate(p)
    \/ LocalReload
    \/ \E inp \in BudgetInputs : OnAddBudget(inp)
    \/ \E code \in CurrencyCodes : OnCurrencyChange(code)
    \/ ToggleCreate
    \/ \E inp \in GoalInputs : CreateGoal(inp)
    \/ RemoveGoal
    \/ \E inp \in ContribInputs : AddContribution(inp)
    \/ ContribSend
    \/ \E i \in 1..MaxOutstanding, r \in CompanionResponses : ContribResponse(i, r)

LocalSpec == LocalInit /\ [][LocalNext]_vars

\* Aggregator: the goal card of the Dashboard and the progress ring of Savings

RECURSIVE SumAmounts(_)
SumAmounts(cs) == IF cs = <<>> THEN 0 ELSE Head(cs).amount + SumAmounts(Tail(cs))

\* contributions.iter().map(|c| c.amount).sum()
Saved(g) == SumAmounts(g.contributions)

\* A progress value is the fraction num / den with den > 0 (the f64 quotient of
\* two integers, kept exact).
Ratio(num, den) == [num |-> num, den |-> den]

\* dashboard_page: if target_amount > 0 { (saved / target).min(1.0) } else { 0.0 }
goal_progress(g) ==
    IF g.target_amount > 0
    THEN IF Saved(g) >= g.target_amount THEN Ratio(1, 1) ELSE Ratio(Saved(g), g.target_amount)
    ELSE Ratio(0, 1)

\* savings_page: if target_amount > 0 { saved / target } else { 0.0 }
progress(g) ==
    IF g.target_amount > 0 THEN Ratio(Saved(g), g.target_amount) ELSE Ratio(0, 1)

\* 0 <= r <= 1
InUnitInterval(r) == 0 <= r.num /\ r.num <= r.den

\* dashboard_page: (goal_progress * 100.0) as i32, the integer part of the
\* percentage (the f64 product may round to the integer below the exact one;
\* it stays within the same range)
DashboardPercent(g) == (100 * goal_progress(g).num) \div goal_progress(g).den

\* savings_page: (progress * 100.0).round() as i32, the percentage rounded half up
SavingsPercent(g) == (200 * progress(g).num + progress(g).den) \div (2 * progress(g).den)

\* dashboard_page: the test that renders "No goal set yet."
NoGoalSetYet(g) ==
    g.target_amount = 0 /\ g.contributions = <<>> /\ Trim(g.title) = EMPTY

\* what the view that is mounted shows of the goal
GoalProgressShown ==
    IF page = "Savings" THEN progress(goal) ELSE goal_progress(load_saving_goal(storage))

GoalPercentShown ==
    IF page = "Savings" THEN SavingsPercent(goal) ELSE DashboardPercent(load_saving_goal(storage))

----------------------------------------------------------------------------

Next ==
    \/ \E p \in Pages : Navigate(p)
    \/ \E t \in TokenOpts : Reload(t)
    \/ \E r \in ListResponses : ListResponse(r)
    \/ \E r \in SummaryResponses : SummaryResponse(r)
    \/ ToggleAdd
    \/ Clear
    \/ \E f \in FormInputs(page) : SubmitInvalid(f)
    \/ \E f \in FormInputs(page) : SubmitValid(f)
    \/ \E r \in CreateResponses : CreateResponse(r)
    \/ \E r \in SummaryResponses : RefetchResponse(r)

Spec == Init /\ [][Next]_vars

\* One activation of any view, in which every issued read is eventually answered
ActivationInit ==
    /\ access_token \in TokenOpts
    /\ \E p \in Pages : Mounted(p, access_token)
    /\ LocalMounted(EmptyStore)

ActivationNext ==
    \/ \E r \in ListResponses : ListResponse(r)
    \/ \E r \in SummaryResponses : SummaryResponse(r)
    \/ ToggleAdd
    \/ Clear
    \/ \E f \in FormInputs(page) : SubmitInvalid(f)
    \/ \E f \in FormInputs(page) : SubmitValid(f)
    \/ \E r \in CreateResponses : CreateResponse(r)
    \/ \E r \in SummaryResponses : RefetchResponse(r)

ActivationSpec ==
    /\ ActivationInit
    /\ [][ActivationNext]_vars
    /\ WF_vars(\E r \in ListResponses : ListResponse(r))
    /\ WF_vars(\E r \in SummaryResponses : SummaryResponse(r))

\* The Income and Expense views over remote lists that hold incomes, expenses
\* and a transaction of amount 0, in every order
T_ZERO == MkTransaction(Some(5), D1, DESC, FOOD, 0)

FetchedLists == SeqsUpTo({T_FOOD, T_SALARY, T_ZERO}, MaxFetched)

FetchedResponses == FailedResponses \cup {MkResponse("Ok", Some(l)) : l \in FetchedLists}

FilterPages == {"Income", "Expense"}

FilterInit ==
    /\ access_token \in TokenOpts
    /\ \E p \in FilterPages : Mounted(p, access_token)
    /\ LocalMounted(EmptyStore)

FilterNext ==
    \/ \E p \in FilterPages : Navigate(p)
    \/ \E r \in FetchedResponses : ListResponse(r)
    \/ Clear
    \/ \E f \in FormInputs(page) : SubmitInvalid(f)

FilterSpec == FilterInit /\ [][FilterNext]_vars

----------------------------------------------------------------------------
(* Spending by category: the Dashboard's budget card and the Budget view *)

MaxStatusLen == 3     \* longest list the remote returns to the budget status views

TOP_N == 5

Abs(x) == IF x < 0 THEN 0 - x ELSE x

\* a HashMap<String, i64> is a function whose domain is its key set
EmptyMap == [c \in {} |-> 0]

\* map.get(key).cloned().unwrap_or(0): the key is compared exactly
Get(m, key) == IF key \in DOMAIN m THEN m[key] ELSE 0

\* *map.entry(key).or_insert(0) += v
AddEntry(m, key, v) ==
    [c \in DOMAIN m \cup {key} |-> Get(m, c) + (IF c = key THEN v ELSE 0)]

\* map.insert(key, v)
Insert(m, key, v) == [c \in DOMAIN m \cup {key} |-> IF c = key THEN v ELSE m[c]]

\* (mutant) every transaction is counted, whatever its sign
SpendStep_AnySign(m, tx) == AddEntry(m, tx.category, Abs(tx.amount))

\* Dashboard, the body of the loop over the list
SpendStep(m, tx) ==
    IF tx.amount < 0 THEN AddEntry(m, tx.category, Abs(tx.amount)) ELSE m

RECURSIVE SpendLoop(_, _)
SpendLoop(m, list) ==
    IF list = <<>> THEN m ELSE SpendLoop(SpendStep(m, Head(list)), Tail(list))

\* Dashboard: spent_by_category, rebuilt from the list cell on every render
spent_by_category(list) == SpendLoop(EmptyMap, list)

\* Budget, the body of the loop over the decoded list: totals and spent
TotalsStep(acc, tx) ==
    IF tx.amount < 0
    THEN [totals |-> AddEntry(acc.totals, tx.category, Abs(tx.amount)),
          spent |-> acc.spent + Abs(tx.amount)]
    ELSE acc

RECURSIVE TotalsLoop(_, _)
TotalsLoop(acc, list) ==
    IF list = <<>> THEN acc ELSE TotalsLoop(TotalsStep(acc, Head(list)), Tail(list))

\* totals.into_iter().collect(): the pairs of the map, each once, in an order
\* the HashMap does not specify
IterationOrders(m) ==
    {s \in [1..Cardinality(DOMAIN m) -> {<<c, m[c]>> : c \in DOMAIN m}] :
        \A i, j \in DOMAIN s : i # j => s[i] # s[j]}

\* the place sort_by's comparison b.1.cmp(&a.1) gives a pair: after every pair
\* whose total is not smaller
RECURSIVE InsertDescending(_, _)
InsertDescending(sorted, e) ==
    IF sorted = <<>> THEN <<e>>
    ELSE IF Head(sorted)[2] >= e[2]
         THEN <<Head(sorted)>> \o InsertDescending(Tail(sorted), e)
         ELSE <<e>> \o sorted

\* totals_vec.sort_by(|a, b| b.1.cmp(&a.1)): descending by total, stable
RECURSIVE SortDescending(_)
SortDescending(v) ==
    IF Len(v) = 0 THEN <<>>
    ELSE InsertDescending(SortDescending(SubSeq(v, 1, Len(v) - 1)), v[Len(v)])

\* Budget: the response to the view's list read
BudgetListResponse(resp) ==
    /\ page = "Budget"
    /\ fetchPc = "list"
    /\ IF resp.outcome = "Ok"
       THEN LET acc == TotalsLoop([totals |-> EmptyMap, spent |-> 0], resp.body[1]) IN
            /\ \E totals_vec \in IterationOrders(acc.totals) :
                   category_totals' = SortDescending(totals_vec)
            /\ total_spent' = acc.spent
       ELSE UNCHANGED <<category_totals, total_spent>>
    /\ fetchLog' = Append(fetchLog, FetchLogEntry(TX_URL, resp))
    /\ FetchAdvance("list")
    /\ UNCHANGED <<access_token, page, transactions, total_income, total_expenses,
                   balance, form, form_error, form_success, saving, show_add,
                   createPc, createReq, createSnap>>
    /\ UNCHANGED localVars

\* Budget: spent_by_category, rebuilt from the category_totals cell on every render
RECURSIVE InsertAll(_, _)
InsertAll(m, pairs) ==
    IF pairs = <<>> THEN m
    ELSE InsertAll(Insert(m, Head(pairs)[1], Head(pairs)[2]), Tail(pairs))

budget_spent_by_category == InsertAll(EmptyMap, category_totals)

\* Budget: category_totals.iter().take(5)
TopCategories == Take(category_totals, TOP_N)

\* (x as f64 / y as f64 * 100.0).round() as i64 for x >= 0 and y > 0, in exact
\* arithmetic: halves round up.  On the model's values the f64 product is
\* never within an ulp of a half, so both agree.
RoundPercent(x, y) == (200 * x + y) \div (2 * y)

\* both views: the percentage of a limit that is spent
Percent(spent, limit) == IF limit > 0 THEN RoundPercent(spent, limit) ELSE 0

\* (mutant) the category is looked up ignoring ASCII case
LookupSpent_IgnoreCase(m, b) ==
    IF \E c \in DOMAIN m : eq_ignore_ascii_case(c, b.category)
    THEN m[CHOOSE c \in DOMAIN m : eq_ignore_ascii_case(c, b.category)]
    ELSE 0

\* both views: spent_by_category.get(&b.category).cloned().unwrap_or(0)
LookupSpent(m, b) == Get(m, b.category)

\* Dashboard: one budget row
DashboardRow(b) ==
    LET spent == LookupSpent(spent_by_category(transactions), b) IN
    [spent |-> spent, remaining |-> b.limit - spent, percent |-> Percent(spent, b.limit),
     red |-> b.limit - spent < 0]

\* Dashboard: the number of budgets whose spend exceeds their limit
overspent_count ==
    Cardinality({i \in 1..Len(budgets) :
        LookupSpent(spent_by_category(transactions), budgets[i]) > budgets[i].limit})

Max(a, b) == IF a >= b THEN a ELSE b

\* Budget: one budget row
BudgetRow(b) ==
    LET spent == LookupSpent(budget_spent_by_category, b) IN
    [spent |-> spent, remaining |-> Max(b.limit - spent, 0),
     percent |-> Percent(spent, b.limit)]

\* The Dashboard and the Budget view over remote lists that hold expenses of
\* two categories with equal amounts and an income, in every order
T_RENT == MkTransaction(Some(6), D1, DESC, RENT, 0 - 5)

StatusLists == SeqsUpTo({T_FOOD, T_SALARY, T_RENT}, MaxStatusLen)

StatusResponses == FailedResponses \cup {MkResponse("Ok", Some(l)) : l \in StatusLists}

StatusPages == {"Dashboard", "Budget"}

StatusNavigate(p) ==
    /\ p # page
    /\ Mount(p, access_token)
    /\ budgets' = load_budgets(storage)
    /\ budget_error' = None
    /\ UNCHANGED <<access_token, storage, settings, goal, is_creating, contribTask,
                   contribReq>>

StatusInit ==
    /\ access_token \in TokenOpts
    /\ \E p \in StatusPages : Mounted(p, access_token)
    /\ LocalMounted(EmptyStore)

StatusNext ==
    \/ \E p \in StatusPages : StatusNavigate(p)
    \/ \E r \in StatusResponses : page = "Dashboard" /\ ListResponse(r)
    \/ \E r \in SummaryResponses : SummaryResponse(r)
    \/ \E r \in StatusResponses : BudgetListResponse(r)
    \/ \E inp \in BudgetInputs : OnAddBudget(inp)

StatusSpec == StatusInit /\ [][StatusNext]_vars

----------------------------------------------------------------------------
(* Currency formatting *)

DigitChars == <<"0", "1", "2", "3", "4", "5", "6", "7", "8", "9">>

\* i64::to_string of a value that is not negative
RECURSIVE to_string(_)
to_string(n) ==
    IF n < 10 THEN <<DigitChars[n + 1]>>
    ELSE to_string(n \div 10) \o <<DigitChars[(n % 10) + 1]>>

RECURSIVE Reverse(_)
Reverse(s) == IF s = <<>> THEN <<>> ELSE Reverse(Tail(s)) \o <<Head(s)>>

\* (mutant) a comma before every third character, the first one included
CommaStep_FromStart(out, i, ch) ==
    IF i % 3 = 0 THEN out \o <<",", ch>> ELSE out \o <<ch>>

\* format_with_commas, the body of the loop over the reversed digits, i from 0
CommaStep(out, i, ch) ==
    IF i > 0 /\ i % 3 = 0 THEN out \o <<",", ch>> ELSE out \o <<ch>>

RECURSIVE CommaLoop(_, _, _)
CommaLoop(out, s, i) ==
    IF i >= Len(s) THEN out ELSE CommaLoop(CommaStep(out, i, s[i + 1]), s, i + 1)

format_with_commas(value) ==
    LET s == Reverse(to_string(Abs(value)))
        formatted == Reverse(CommaLoop(<<>>, s, 0))
    IN  IF value < 0 THEN <<"-">> \o formatted ELSE formatted

\* format!("{}{} {}.00", sign, symbol, format_with_commas(amount.abs()))
format_currency(amount, symbol) ==
    (IF amount < 0 THEN <<"-">> ELSE <<>>) \o symbol \o <<" ">>
        \o format_with_commas(Abs(amount)) \o <<".", "0", "0">>

\* The Summary view and the Dashboard over summary responses whose totals
\* have one to seven digits and either sign, under the peso and the dollar
FormatAmounts == {0, 999, 1000, 0 - 1234567, 12, 0 - 100, 123456, 1000000}

FormatBodies ==
    {MkSummary(Some(i), Some(e), Some(b)) : i, e, b \in FormatAmounts}

FormatResponses == FailedResponses \cup {MkResponse("Ok", Some(b)) : b \in FormatBodies}

FormatPages == {"Summary", "Dashboard"}

FormatStores == {EmptyStore, save_settings(EmptyStore, MkSettings(USD, SYM_DOLLAR))}

\* the totals cards of the mounted view
TotalsShown ==
    [c \in {"total_income", "total_expenses", "balance"} |->
        format_currency(CASE c = "total_income" -> total_income
                          [] c = "total_expenses" -> total_expenses
                          [] c = "balance" -> balance,
                        settings.currency_symbol)]

FormatInit ==
    /\ access_token \in TokenOpts
    /\ \E p \in FormatPages : Mounted(p, access_token)
    /\ \E st \in FormatStores : LocalMounted(st)

FormatNext ==
    \/ \E p \in FormatPages : Navigate(p)
    \/ \E r \in FormatResponses : SummaryResponse(r)
    \/ \E r \in ListResponses : ListResponse(r)

FormatSpec == FormatInit /\ [][FormatNext]_vars

\* The Income and Expense views with a remote whose create response holds any
\* transaction: an income, an expense or one of amount 0
EntityPool == {T_SALARY, T_FOOD, T_ZERO}

EntityResponses == FailedResponses \cup {MkResponse("Ok", Some(t)) : t \in EntityPool}

EntityNext ==
    \/ \E p \in FilterPages : Navigate(p)
    \/ \E r \in ListResponses : ListResponse(r)
    \/ \E f \in FormInputs(page) : SubmitValid(f)
    \/ \E r \in EntityResponses : CreateApply(r, r.body[1])

EntitySpec == FilterInit /\ [][EntityNext]_vars

\* every ledger request that is awaiting its response
Requests ==
    {fetchReq[i] : i \in 1..Len(fetchReq)} \cup {createReq[i] : i \in 1..Len(createReq)}
        \cup {contribReq[i] : i \in 1..Len(contribReq)}

----------------------------------------------------------------------------
(* Claims *)

\* C1: for every create form, when the POST fails (network error or
\* non-success status) an error message is set on the form and the view's
\* list is unchanged.
C1_PostFailureSurfaced ==
    [][\A r \in FailedResponses :
          (r.outcome \in {"NetErr", "Status"} /\ CreateResponse(r))
              => (form_error' # None /\ transactions' = transactions)]_vars

\* C2: once the POST of a submission has completed, with whatever outcome, and
\* the create task has ended, the saving gate is released.
C2_GateReleasedAfterPost == (createPc = "idle") => ~saving

\* C3: after a successful create the list is the created transaction (the
\* entity of the response) followed by the list as it was immediately before
\* the response was applied, in every interleaving with the activation's fetch.
C3_PrependToCurrentList ==
    [][\A r \in CreateResponses :
          (r.outcome = "Ok" /\ CreateResponse(r))
              => transactions' =
                     <<Created(r.body[1], createReq[1].payload[1])>> \o transactions]_vars

\* C4: for each form instance at most one create POST is outstanding: a POST
\* is issued only while no create task of the form is running, every running
\* create task keeps the gate set (so the button is disabled), and a newly
\* mounted form starts with its own released gate.
C4_SingleFlight ==
    /\ [](createPc # "idle" => saving)
    /\ [][/\ \A f \in FormInputs(page) :
                (form' = f /\ SubmitValid(f))
                    => (createReq = None /\ createPc = "idle" /\ ~saving)
          /\ \A p \in Pages : Navigate(p) => (~saving' /\ createReq' = None)]_vars

\* C4 witness: the gate is set and the POST is outstanding
C4_Witness == saving /\ createPc = "post" /\ createReq # None /\ page = "Income"

\* the claim's rejected submissions, stated on the typed text
C5_Rejected(p, f) ==
    \/ \E k \in Fields : Trim(f[k]) = EMPTY
    \/ ParseI64(Trim(f.amount)) = None
    \/ IF p = "Dashboard" THEN ParseI64(Trim(f.amount)) = Some(0)
       ELSE ParseI64(Trim(f.amount))[1] <= 0

\* C5: a submission with a required field empty after trimming, or an amount
\* that fails validation, sets an error message, issues no request, does not
\* set the gate and leaves the list unchanged, on all three forms.
C5_InvalidSubmitRejected ==
    [][\A f \in FormInputs(page) :
          (form' = f /\ C5_Rejected(page, f) /\ Submit(f))
              => /\ form_error' # None
                 /\ Requests' = Requests
                 /\ createPc' = "idle"
                 /\ ~saving'
                 /\ transactions' = transactions]_vars

\* C5 witness: a whitespace-only description has been refused on the Expense form
C5_Witness ==
    /\ page = "Expense"
    /\ form.description # EMPTY
    /\ Trim(form.description) = EMPTY
    /\ form_error = Some(MSG_INCOMPLETE)
    /\ ~saving
    /\ createReq = None

\* C6: every request to the remote ledger carries Authorization: Bearer <token>
\* whenever a token was in local storage when the request was built.
C6_BearerOnEveryRequest ==
    \A r \in Requests :
        r.token_at_build # None
            => r.auth = Some([name |-> "Authorization", scheme |-> "Bearer",
                              token |-> r.token_at_build[1]])

C8_Reads(p) == IF p \in {"Dashboard", "Summary"} THEN 2 ELSE 1

\* C8: in one activation, loading is true exactly until every read of the
\* activation has completed (with any outcome), never becomes true again, and
\* becomes false when every issued request is eventually answered.
C8_LoadingLifecycle ==
    /\ [](loading <=> Len(fetchLog) < C8_Reads(page))
    /\ [](~loading => fetchReq = None)
    /\ [][~loading => ~loading']_vars
    /\ <>(~loading)

\* C8 witness: on the Dashboard both reads have completed, one of them failed,
\* and loading is false
C8_Witness ==
    /\ page = "Dashboard"
    /\ ~loading
    /\ Len(fetchLog) = 2
    /\ fetchLog[1].outcome = "BadBody"
    /\ fetchLog[2].outcome = "Ok"

\* C9: a failed read leaves the list and the totals as they were, sets no error
\* message, and the activation's other read is still issued and, when it
\* succeeds, applied.
C9_ReadFailureKeepsState ==
    [][/\ \A r \in FailedResponses :
             (ListResponse(r) \/ SummaryResponse(r))
                 => /\ UNCHANGED <<transactions, total_income, total_expenses, balance>>
                    /\ UNCHANGED <<form_error, form_success>>
                    /\ Len(fetchLog') < C8_Reads(page)
                          => /\ fetchReq' # None
                             /\ fetchReq'[1].method = "GET"
                             /\ fetchReq'[1].url # fetchLog'[1].url
       /\ \A r \in SummaryResponses :
             (r.outcome = "Ok" /\ SummaryResponse(r)
                 /\ fetchLog # <<>> /\ fetchLog[1].outcome # "Ok")
                 => /\ total_expenses' = r.body[1].total_expenses[1]
                    /\ balance' = r.body[1].balance[1]
       /\ \A r \in ListResponses :
             (r.outcome = "Ok" /\ ListResponse(r)
                 /\ fetchLog # <<>> /\ fetchLog[1].outcome # "Ok")
                 => transactions' = r.body[1]]_vars

\* C9 witness: on the Dashboard the list read failed with a network error and
\* the summary read was issued and applied
C9_Witness ==
    /\ page = "Dashboard"
    /\ fetchLog = <<[url |-> TX_URL, outcome |-> "NetErr"],
                    [url |-> SUMMARY_URL, outcome |-> "Ok"]>>
    /\ transactions = <<>>
    /\ balance = 2
    /\ form_error = None

\* the urls of the reads the activation has issued so far
C10_Issued ==
    {fetchLog[i].url : i \in 1..Len(fetchLog)} \cup {fetchReq[i].url : i \in 1..Len(fetchReq)}

\* C10 as stated: on the Dashboard and the Summary view neither read waits for
\* the other, so from activation on both have been issued.
C10_BothIssuedAtOnce ==
    page \in {"Dashboard", "Summary"} => C10_Issued = {TX_URL, SUMMARY_URL}

\* the order in which the view's single task issues its two reads
C10_Order(p) ==
    IF p = "Dashboard" THEN <<TX_URL, SUMMARY_URL>> ELSE <<SUMMARY_URL, TX_URL>>

\* C10 amended: the two reads are issued one after the other by one task (the
\* Dashboard reads the list then the summary, the Summary view the summary then
\* the list); the second is issued when the first has completed, whatever its
\* outcome, so only that completion order occurs; the list read writes no
\* total and the summary read does not write the list.
C10_SequentialReads ==
    /\ [](page \in {"Dashboard", "Summary"} =>
            /\ Len(fetchLog) <= 2
            /\ \A i \in 1..Len(fetchLog) : fetchLog[i].url = C10_Order(page)[i]
            /\ Len(fetchLog) < 2 =>
                  /\ fetchReq # None
                  /\ fetchReq[1].url = C10_Order(page)[Len(fetchLog) + 1]
            /\ Len(fetchLog) = 2 => fetchReq = None)
    /\ [][/\ \A r \in ListResponses :
                ListResponse(r) => UNCHANGED <<total_income, total_expenses, balance>>
          /\ \A r \in SummaryResponses :
                SummaryResponse(r) => UNCHANGED transactions]_vars

\* C10 witness: on the Summary view the summary read has completed and the list
\* read, issued after it, is outstanding
C10_Witness ==
    /\ page = "Summary"
    /\ Len(fetchLog) = 1
    /\ fetchLog[1].url = SUMMARY_URL
    /\ fetchReq # None
    /\ fetchReq[1].url = TX_URL

\* C11: adding a contribution with a parsed amount a > 0 puts the contribution
\* (amount a, the date of the form) at the head of the goal's contributions
\* and writes the new goal under the saving_goal key, with no POST issued by
\* the click itself; the task it has spawned then issues exactly one POST to
\* /api/transactions with category "Savings" and amount -a, at a moment when
\* the store already holds the goal with the contribution, and issues no more.
C11_LocalWriteThenOnePost ==
    [][/\ \A inp \in ContribInputs :
            (contribTask' # None /\ AddContribution(inp))
                => LET a == UnwrapOr(ParseI64(inp.amount), 0) IN
                   /\ a > 0
                   /\ Len(goal'.contributions) = Len(goal.contributions) + 1
                   /\ Head(goal'.contributions).amount = a
                   /\ Head(goal'.contributions).date = inp.date
                   /\ Tail(goal'.contributions) = goal.contributions
                   /\ storage'["saving_goal"] # None
                   /\ FromStrGoal(storage'["saving_goal"][1]) = Some(goal')
                   /\ contribReq' = contribReq
       /\ ContribSend
            => /\ Len(contribReq') = Len(contribReq) + 1
               /\ SubSeq(contribReq', 1, Len(contribReq)) = contribReq
               /\ LET req == contribReq'[Len(contribReq')] IN
                  /\ req.method = "POST"
                  /\ req.url = TX_URL
                  /\ req.payload[1].category = SAVINGS
                  /\ req.payload[1].amount = 0 - Head(goal.contributions).amount
                  /\ Head(goal.contributions).amount > 0
               /\ load_saving_goal(storage) = goal
               /\ contribTask' = None]_vars

\* a contribution has been added and its companion POST is awaiting its response
C11_Witness ==
    /\ page = "Savings"
    /\ contribReq # <<>>
    /\ goal.contributions # <<>>
    /\ contribReq[1].payload[1].amount = 0 - Head(goal.contributions).amount

\* C12: the response to a companion POST, whatever its outcome, changes
\* neither the in-memory goal nor the store, and sets no message on any view.
C12_CompanionOutcomeIgnored ==
    [][\A i \in 1..MaxOutstanding : \A r \in CompanionResponses :
          (Len(contribReq') < Len(contribReq) /\ ContribResponse(i, r))
              => /\ goal' = goal
                 /\ storage' = storage
                 /\ budget_error' = budget_error
                 /\ form_error' = form_error
                 /\ form_success' = form_success]_vars

\* the companion POST of a recorded contribution has been answered: the
\* contribution is in the goal cell and in the stored goal, no POST is outstanding
C12_Witness ==
    /\ page = "Savings"
    /\ contribTask = None
    /\ contribReq = <<>>
    /\ goal.contributions # <<>>
    /\ load_saving_goal(storage) = goal

\* two categories are equal under case-insensitive comparison: they are the
\* same text once every ASCII capital is replaced by its small letter
SameIgnoringCase(a, b) ==
    [i \in 1..Len(a) |-> to_ascii_lowercase(a[i])]
        = [i \in 1..Len(b) |-> to_ascii_lowercase(b[i])]

\* C13: an accepted upsert of category c (trimmed) with limit l: when an entry
\* matches c under case-insensitive comparison, the collection keeps its
\* length and order, the matching entry keeps its category and takes limit l,
\* every other entry is unchanged; when no entry matches, the new collection is
\* the old one with the entry (c, l) appended at the end.  In both cases the
\* budgets key decodes to the new in-memory collection.
C13_UpsertBudget ==
    [][\A inp \in BudgetInputs :
          (page = "Budget" /\ budget_error' = None /\ ~BudgetRefused(inp)
             /\ OnAddBudget(inp))
              => LET c == Trim(inp.category)
                     l == UnwrapOr(ParseI64(Trim(inp.limit)), 0)
                     hits == {i \in 1..Len(budgets) :
                                 SameIgnoringCase(budgets[i].category, c)}
                 IN  /\ IF hits # {}
                        THEN /\ Len(budgets') = Len(budgets)
                             /\ \A i \in 1..Len(budgets) :
                                   budgets'[i] = IF i \in hits
                                                 THEN [budgets[i] EXCEPT !.limit = l]
                                                 ELSE budgets[i]
                        ELSE budgets' = Append(budgets, MkBudgetItem(c, l))
                     /\ storage'["budgets"] # None
                     /\ FromStrBudgets(storage'["budgets"][1]) = Some(budgets')]_vars

\* an entry stored as "Food" with limit 5 has taken the limit 9 of the upsert of
\* " fOOD", in its place before the entry that was appended after it
C13_Witness ==
    /\ page = "Budget"
    /\ budgets = <<MkBudgetItem(FOOD, 9), MkBudgetItem(RENT, 5)>>
    /\ load_budgets(storage) = budgets

C14_Distinct(items) ==
    \A i \in 1..Len(items) : \A j \in 1..Len(items) :
        i # j => ~SameIgnoringCase(items[i].category, items[j].category)

\* C14: in every reachable state no two entries of the budget collection, in
\* the budgets cell or as the budgets key decodes, have categories that are
\* equal under case-insensitive comparison.
C14_UniqueCategories ==
    /\ C14_Distinct(budgets)
    /\ C14_Distinct(load_budgets(storage))

\* two categories are stored and a third upsert, of a category that differs
\* from a stored one by case only, has been taken
C14_Witness ==
    /\ Len(budgets) = 2
    /\ budgets[1].category = <<"f", "O", "O", "D">>
    /\ budgets[1].limit = 5
    /\ load_budgets(storage) = budgets

\* C15: in every reachable state the saving goal's target_amount, in the goal
\* cell and as the saving_goal key decodes, is >= 0.
C15_TargetNonNegative ==
    /\ goal.target_amount >= 0
    /\ load_saving_goal(storage).target_amount >= 0

\* C16: in the Dashboard and in Savings the progress value shown is within
\* [0,1] and the percent shown within 0..100; it is 0 when target_amount <= 0
\* and 1 when saved >= target_amount > 0.
C16_ProgressInUnitInterval ==
    page \in {"Dashboard", "Savings"}
        => LET g == IF page = "Savings" THEN goal ELSE load_saving_goal(storage)
               r == GoalProgressShown
           IN  /\ InUnitInterval(r)
               /\ GoalPercentShown \in 0..100
               /\ g.target_amount <= 0 => r.num = 0
               /\ (g.target_amount > 0 /\ Saved(g) >= g.target_amount) => r.num = r.den

\* C17: an accepted create_goal (title and amount not empty) leaves a goal with
\* no contributions, whatever the previous goal held; the saving_goal key
\* decodes to the new goal cell; the saved total is 0.
C17_ReplaceGoalDiscards ==
    [][\A inp \in GoalInputs :
          (page = "Savings" /\ inp.title # EMPTY /\ inp.amount # EMPTY /\ CreateGoal(inp))
              => /\ goal'.title = inp.title
                 /\ goal'.contributions = <<>>
                 /\ Saved(goal') = 0
                 /\ storage'["saving_goal"] # None
                 /\ FromStrGoal(storage'["saving_goal"][1]) = Some(goal')]_vars

\* a goal has been created over one that held a contribution: the companion
\* POST of that contribution is still outstanding, the contributions are gone
C17_Witness ==
    /\ page = "Savings"
    /\ contribReq # <<>>
    /\ goal.title = CAR
    /\ goal.target_amount = 6
    /\ goal.contributions = <<>>
    /\ load_saving_goal(storage) = goal

\* C18: the goal remove_goal leaves is the goal load returns when the
\* saving_goal key is absent or does not decode, and the Dashboard's
\* "No goal set yet." test gives the same answer for both.
C18_ClearedIsDefault ==
    [][RemoveGoal
          => \A st \in UnwrittenStores :
                /\ goal' = load_saving_goal(st)
                /\ NoGoalSetYet(goal') <=> NoGoalSetYet(load_saving_goal(st))]_vars

C19_Default(k) ==
    CASE k = "settings" -> MkSettings(PHP, SYM_PESO)
      [] k = "budgets" -> <<>>
      [] k = "saving_goal" -> MkGoal(NEW_GOAL, 0, EMPTY, <<>>)

C19_Load(k, st) ==
    CASE k = "settings" -> load_settings(st)
      [] k = "budgets" -> load_budgets(st)
      [] k = "saving_goal" -> load_saving_goal(st)

C19_Cell(k) ==
    CASE k = "settings" -> <<settings>>
      [] k = "budgets" -> <<budgets>>
      [] k = "saving_goal" -> <<goal>>

\* C19: for each of the three keys, a step that writes the key leaves a store
\* from which load returns the value the step saved (the new value of the
\* key's cell), so that a load returns the last value saved; and in every state
\* in which a key is absent, or holds a string that is no JSON or JSON of
\* another shape, load returns the key's default.
C19_LoadAfterSave ==
    [][\A k \in Keys :
          /\ storage'[k] # storage[k]
                => /\ storage'[k] # None
                   /\ <<C19_Load(k, storage')>> = C19_Cell(k)'
          /\ storage[k] \in UnwrittenRaws
                => C19_Load(k, storage) = C19_Default(k)]_vars

\* the document has been loaded again after USD was saved: the settings cell
\* is what was saved; the budgets key still holds a string that does not
\* decode and the collection is the default
C19_Witness ==
    /\ page = "Dashboard"
    /\ storage["settings"] # None
    /\ settings = MkSettings(USD, SYM_DOLLAR)
    /\ load_settings(storage) = settings
    /\ storage["budgets"] = Some(NotJson)
    /\ budgets = <<>>

RECURSIVE C20_Positive(_)
C20_Positive(list) ==
    IF list = <<>> THEN <<>>
    ELSE IF Head(list).amount > 0 THEN <<Head(list)>> \o C20_Positive(Tail(list))
    ELSE C20_Positive(Tail(list))

RECURSIVE C20_Negative(_)
C20_Negative(list) ==
    IF list = <<>> THEN <<>>
    ELSE IF Head(list).amount < 0 THEN <<Head(list)>> \o C20_Negative(Tail(list))
    ELSE C20_Negative(Tail(list))

\* C20: a successful answer to the list read leaves, in the Income view, the
\* transactions of the answer with amount > 0 and, in the Expense view, those
\* with amount < 0, in the order of the answer; no transaction of amount 0 is
\* in either list.
C20_SignFilter ==
    [][\A r \in FetchedResponses :
          (fetchPc = "list" /\ r.outcome = "Ok" /\ ListResponse(r))
              => /\ page = "Income" => transactions' = C20_Positive(r.body[1])
                 /\ page = "Expense" => transactions' = C20_Negative(r.body[1])
                 /\ \A i \in 1..Len(transactions') : transactions'[i].amount # 0]_vars

\* the Income view has had its list read answered with success and holds an
\* income only
C20_Witness ==
    /\ page = "Income"
    /\ fetchPc = "done"
    /\ fetchLog # <<>>
    /\ fetchLog[1].outcome = "Ok"
    /\ transactions = <<T_SALARY>>

\* the integer the text of the amount field stands for after trim(), None when
\* it is no integer
C21_Entered(f) == ParseI64(Trim(f.amount))

\* C21: no POST of a creation form carries amount 0.  A click that sends a POST
\* has an amount field that parses as an integer a: on the Dashboard a # 0 and
\* the POST carries a; on Income a > 0 and the POST carries a; on Expense a > 0
\* and the POST carries -a.  A click whose amount does not parse, or parses as
\* 0, sends nothing.
C21_NoZeroAmountPost ==
    [][\A f \in FormInputs(page) :
          (form' = f /\ Submit(f))
              => IF createReq' # createReq
                 THEN /\ C21_Entered(f) # None
                      /\ createReq'[1].method = "POST"
                      /\ createReq'[1].payload[1].amount # 0
                      /\ LET a == C21_Entered(f)[1] IN
                         CASE page = "Dashboard" ->
                                  a # 0 /\ createReq'[1].payload[1].amount = a
                           [] page = "Income" ->
                                  a > 0 /\ createReq'[1].payload[1].amount = a
                           [] page = "Expense" ->
                                  a > 0 /\ createReq'[1].payload[1].amount = 0 - a
                 ELSE (C21_Entered(f) = None \/ C21_Entered(f) = Some(0))
                          => /\ createPc' = createPc
                             /\ form_error' # None]_vars

\* the Expense form has sent -5 for the entered amount "5 "
C21_Witness ==
    /\ page = "Expense"
    /\ createPc = "post"
    /\ form.amount = <<"5", " ">>
    /\ createReq[1].payload[1].amount = 0 - 5

\* C22: the category-spend mapping has exactly the categories with at least
\* one negative-amount transaction, each mapped to the sum of the absolute
\* values of its negative amounts, which is never negative; the Dashboard and
\* the Budget view obtain that same mapping from the same list.
RECURSIVE C22_SumAbs(_)
C22_SumAbs(list) ==
    IF list = <<>> THEN 0
    ELSE (IF Head(list).amount < 0 THEN 0 - Head(list).amount ELSE Head(list).amount)
             + C22_SumAbs(Tail(list))

C22_Expected(list) ==
    [c \in {list[i].category : i \in {j \in 1..Len(list) : list[j].amount < 0}} |->
        C22_SumAbs(SelectSeq(list, LAMBDA tx : tx.category = c /\ tx.amount < 0))]

C22_CategorySpend ==
    [][\A r \in StatusResponses :
          r.outcome = "Ok"
              => /\ (page = "Dashboard" /\ ListResponse(r))
                        => /\ spent_by_category(transactions') = C22_Expected(r.body[1])
                           /\ \A c \in DOMAIN spent_by_category(transactions') :
                                  spent_by_category(transactions')[c] >= 0
                 /\ BudgetListResponse(r)
                        => /\ budget_spent_by_category' = C22_Expected(r.body[1])
                           /\ \A c \in DOMAIN budget_spent_by_category' :
                                  budget_spent_by_category'[c] >= 0]_vars

\* the Dashboard holds a list with two Food expenses, a Rent expense and no
\* income, and maps Food to 10 and Rent to 5
C22_Witness ==
    /\ page = "Dashboard"
    /\ Len(transactions) = 3
    /\ spent_by_category(transactions) = (FOOD :> 10 @@ RENT :> 5)

\* C23: for every budget, in the Dashboard as in the Budget view, remaining
\* is limit minus spent (negative once overspent), the budget is overspent
\* exactly when spent exceeds the limit, and the percentage used is
\* spent / limit * 100 rounded to the nearest integer when the limit is
\* positive, and 0 otherwise.
C23_Rounded(spent, limit) ==
    IF limit > 0
    THEN CHOOSE n \in 0..(100 * spent) \div limit + 1 :
             /\ 2 * n * limit <= 200 * spent + limit
             /\ 200 * spent + limit < 2 * (n + 1) * limit
    ELSE 0

C23_BudgetStatus ==
    \A i \in 1..Len(budgets) :
        LET b == budgets[i] IN
        /\ page = "Dashboard"
               => /\ DashboardRow(b).remaining = b.limit - DashboardRow(b).spent
                  /\ DashboardRow(b).red <=> DashboardRow(b).spent > b.limit
                  /\ DashboardRow(b).percent = C23_Rounded(DashboardRow(b).spent, b.limit)
        /\ page = "Budget"
               => /\ BudgetRow(b).remaining = b.limit - BudgetRow(b).spent
                  /\ BudgetRow(b).percent = C23_Rounded(BudgetRow(b).spent, b.limit)

\* C24: the percent complete of a goal is min(1, saved / target) * 100 rounded
\* to the nearest integer when the target is positive, and the Dashboard and
\* the Savings view show the same percent for the same goal.
C24_Rounded(g) ==
    LET s == IF Saved(g) >= g.target_amount THEN g.target_amount ELSE Saved(g)
        t == g.target_amount
    IN  CHOOSE n \in 0..100 :
            /\ 2 * n * t <= 200 * s + t
            /\ 200 * s + t < 2 * (n + 1) * t

C24_PercentComplete ==
    /\ (page = "Savings" /\ goal.target_amount > 0 /\ Saved(goal) >= 0)
           => /\ SavingsPercent(goal) = C24_Rounded(goal)
              /\ SavingsPercent(goal) = DashboardPercent(goal)
    /\ (page = "Dashboard" /\ load_saving_goal(storage).target_amount > 0
                           /\ Saved(load_saving_goal(storage)) >= 0)
           => DashboardPercent(load_saving_goal(storage))
                  = C24_Rounded(load_saving_goal(storage))

\* C25: the top categories are the category-spend pairs in descending order
\* of total, pairs of equal totals in the order in which their categories are
\* first seen in the list, cut to the first n (5 in the Budget view); the same
\* list always gives the same result.
C25_FirstSeen(list, c) ==
    CHOOSE i \in 1..Len(list) :
        /\ list[i].category = c /\ list[i].amount < 0
        /\ \A j \in 1..(i - 1) : ~(list[j].category = c /\ list[j].amount < 0)

C25_Precedes(list, p, q) ==
    \/ p[2] > q[2]
    \/ p[2] = q[2] /\ C25_FirstSeen(list, p[1]) < C25_FirstSeen(list, q[1])

C25_IsTop(top, list, n) ==
    LET m == C22_Expected(list)
        all == {<<c, m[c]>> : c \in DOMAIN m}
    IN  /\ Len(top) = (IF Cardinality(all) <= n THEN Cardinality(all) ELSE n)
        /\ \A i \in 1..Len(top) : top[i] \in all
        /\ \A i, j \in 1..Len(top) : i < j => C25_Precedes(list, top[i], top[j])
        /\ \A q \in all \ {top[i] : i \in 1..Len(top)} :
               \A i \in 1..Len(top) : C25_Precedes(list, top[i], q)

C25_TopCategories ==
    [][\A r \in StatusResponses :
          (r.outcome = "Ok" /\ BudgetListResponse(r))
              => C25_IsTop(TopCategories', r.body[1], TOP_N)]_vars

\* C26: every contribution of the goal, in memory and persisted, has a
\* positive amount, so the saved total is never negative; an attempt to add a
\* contribution whose amount is no integer or is not positive changes neither
\* the in-memory goal nor the persisted one and sends no POST.
C26_AllPositive(g) == \A i \in 1..Len(g.contributions) : g.contributions[i].amount > 0

C26_Refused(inp) == ParseI64(inp.amount) = None \/ ParseI64(inp.amount)[1] <= 0

C26_ContributionsPositive ==
    [][/\ C26_AllPositive(goal') /\ Saved(goal') >= 0
       /\ storage' # storage
              => LET persisted == load_saving_goal(storage') IN
                 C26_AllPositive(persisted) /\ Saved(persisted) >= 0
       /\ \A inp \in ContribInputs :
              (page = "Savings" /\ C26_Refused(inp) /\ AddContribution(inp))
                  => /\ goal' = goal
                     /\ storage' = storage
                     /\ contribTask' = None
                     /\ contribReq' = contribReq]_vars

\* the goal holds two contributions, saved 8, and is persisted as it is
C26_Witness ==
    /\ page = "Savings"
    /\ Len(goal.contributions) = 2
    /\ Saved(goal) = 8
    /\ load_saving_goal(storage) = goal
    /\ contribTask = None

\* C27: format(amount, symbol) is "-" exactly when the amount is negative,
\* then the symbol, a space, the magnitude with a comma between every group
\* of three digits counted from the least significant end, and ".00";
\* format(0, "$") is "$ 0.00", format(999, "$") is "$ 999.00",
\* format(1000, "$") is "$ 1,000.00" and format(-1234567, peso) is
\* "-(peso) 1,234,567.00".
C27_Digit(d) ==
    CASE d = 0 -> "0" [] d = 1 -> "1" [] d = 2 -> "2" [] d = 3 -> "3" [] d = 4 -> "4"
      [] d = 5 -> "5" [] d = 6 -> "6" [] d = 7 -> "7" [] d = 8 -> "8" [] d = 9 -> "9"

C27_Three(k) == <<C27_Digit(k \div 100), C27_Digit((k \div 10) % 10), C27_Digit(k % 10)>>

C27_Leading(k) ==
    IF k >= 100 THEN C27_Three(k)
    ELSE IF k >= 10 THEN <<C27_Digit(k \div 10), C27_Digit(k % 10)>>
    ELSE <<C27_Digit(k)>>

RECURSIVE C27_Grouped(_)
C27_Grouped(n) ==
    IF n < 1000 THEN C27_Leading(n)
    ELSE C27_Grouped(n \div 1000) \o <<",">> \o C27_Three(n % 1000)

C27_Expected(amount, symbol) ==
    IF amount < 0
    THEN <<"-">> \o symbol \o <<" ">> \o C27_Grouped(0 - amount) \o <<".", "0", "0">>
    ELSE symbol \o <<" ">> \o C27_Grouped(amount) \o <<".", "0", "0">>

C27_Value(c) ==
    CASE c = "total_income" -> total_income
      [] c = "total_expenses" -> total_expenses
      [] c = "balance" -> balance

C27_Format ==
    \A c \in DOMAIN TotalsShown :
        /\ TotalsShown[c] = C27_Expected(C27_Value(c), settings.currency_symbol)
        /\ (C27_Value(c) = 0 /\ settings.currency_symbol = SYM_DOLLAR)
               => TotalsShown[c] = SYM_DOLLAR \o <<" ", "0", ".", "0", "0">>
        /\ (C27_Value(c) = 999 /\ settings.currency_symbol = SYM_DOLLAR)
               => TotalsShown[c] = SYM_DOLLAR \o <<" ", "9", "9", "9", ".", "0", "0">>
        /\ (C27_Value(c) = 1000 /\ settings.currency_symbol = SYM_DOLLAR)
               => TotalsShown[c] = SYM_DOLLAR \o <<" ", "1", ",", "0", "0", "0", ".", "0", "0">>
        /\ (C27_Value(c) = 0 - 1234567 /\ settings.currency_symbol = SYM_PESO)
               => TotalsShown[c] = <<"-">> \o SYM_PESO
                      \o <<" ", "1", ",", "2", "3", "4", ",", "5", "6", "7", ".", "0", "0">>

\* the Summary view shows a balance of -1234567 in pesos, and an income of
\* 1000 next to it
C27_Witness ==
    /\ page = "Summary"
    /\ settings.currency_symbol = SYM_PESO
    /\ total_income = 1000
    /\ balance = 0 - 1234567
    /\ TotalsShown["balance"]
           = <<"-">> \o SYM_PESO
                 \o <<" ", "1", ",", "2", "3", "4", ",", "5", "6", "7", ".", "0", "0">>

\* C28: the spend attributed to a budget is the category-spend value of the
\* category that equals the budget's category exactly, case included, and 0
\* when there is none; an upsert whose category differs only in case from a
\* stored entry leaves that entry its category; a budget whose category
\* differs from the transactions' category in case reports spent 0 and is
\* not overspent.
C28_Spend(b) ==
    IF page = "Dashboard"
    THEN IF b.category \in DOMAIN C22_Expected(transactions)
         THEN C22_Expected(transactions)[b.category] ELSE 0
    ELSE IF \E k \in 1..Len(category_totals) : category_totals[k][1] = b.category
         THEN category_totals[CHOOSE k \in 1..Len(category_totals) :
                                  category_totals[k][1] = b.category][2]
         ELSE 0

C28_SpentCategories ==
    IF page = "Dashboard"
    THEN {transactions[k].category :
             k \in {j \in 1..Len(transactions) : transactions[j].amount < 0}}
    ELSE {category_totals[k][1] : k \in 1..Len(category_totals)}

C28_Status ==
    page \in StatusPages
        => \A i \in 1..Len(budgets) :
               LET b == budgets[i]
                   row == IF page = "Dashboard" THEN DashboardRow(b) ELSE BudgetRow(b)
               IN  /\ row.spent = C28_Spend(b)
                   /\ b.category \notin C28_SpentCategories
                          => /\ row.spent = 0
                             /\ row.percent = 0
                             /\ page = "Dashboard" => ~row.red
                             /\ b.limit >= 0 => row.remaining = b.limit

C28_ExactCategory ==
    [][/\ C28_Status'
       /\ \A inp \in BudgetInputs :
              (page = "Budget" /\ ~BudgetRefused(inp) /\ OnAddBudget(inp))
                  => \A i \in 1..Len(budgets) :
                         SameIgnoringCase(budgets[i].category, Trim(inp.category))
                             => budgets'[i].category = budgets[i].category]_vars

\* the Dashboard holds two Food expenses and a budget stored as "fOOD" with
\* limit 9, which reports nothing spent and is not counted as overspent
C28_Witness ==
    /\ page = "Dashboard"
    /\ spent_by_category(transactions) = (FOOD :> 10)
    /\ budgets = <<MkBudgetItem(<<"f", "O", "O", "D">>, 9)>>
    /\ DashboardRow(budgets[1]).spent = 0
    /\ overspent_count = 0

\* C29: in the Dashboard and the Summary view the three totals are either
\* all at their default 0 or all equal to the fields of one same summary
\* response: never a mix of two responses or of a response and the defaults,
\* and never a value computed from the list.
C29_TotalsOfOneResponse ==
    page \in SummaryPages
        => \/ total_income = 0 /\ total_expenses = 0 /\ balance = 0
           \/ \E b \in SummaryBodies :
                  /\ b.total_income = Some(total_income)
                  /\ b.total_expenses = Some(total_expenses)
                  /\ b.balance = Some(balance)

\* C30: every entry of the Income view's list has amount > 0 and every entry
\* of the Expense view's list has amount < 0, after any sequence of fetches
\* and creates and whatever entity the remote returns in a create response.
C30_SignedLists ==
    /\ page = "Income" => \A i \in 1..Len(transactions) : transactions[i].amount > 0
    /\ page = "Expense" => \A i \in 1..Len(transactions) : transactions[i].amount < 0

====
